---- MODULE Spec2Model ----
(***************************************************************************)
(* Model of the bootstrap statistic engine of robust-qa.                   *)
(*                                                                         *)
(* Two variants of the engine exist in the repository and both are         *)
(* modelled, selected by the variable `variant`:                           *)
(*   "core"     : src/src/compute_robust.rs      (precision_at_robust)     *)
(*   "analysis" : src/analysis/src/metrics/precision.rs (tp_at_robust)     *)
(*                                                                         *)
(* f64 values are modelled as binary floating-point numbers with a         *)
(* significand of MantBits bits; the not-a-number value is <<0, 0>>.       *)
(***************************************************************************)
EXTENDS Integers, Sequences, FiniteSets, TLC

VARIABLES
    variant,    \* which of the two engine variants runs
    args,       \* the arguments of the engine call (read-only)
    rng_salt,   \* the (unknown, fixed) key of the pseudo-random generator
    pc,         \* position of the engine call
    t,          \* index of the quality threshold being processed (1-based)
    reps,       \* per replicate index: its task state, resample and curves
    agg,        \* the aggregated curves of the current quality threshold
    out,        \* the two output vectors built so far
    hist,       \* the resamples drawn for the previous quality threshold
    a_in,       \* aggregate_curves called on its own: the inputs
    a_out,      \* aggregate_curves called on its own: the result
    combinations, \* the batch: per combination, the state of its columns
    bpc,        \* position of main
    work,       \* per combination: the position of its worker closure
    jobs,       \* per (combination, target FNR): the phase of the job
    accs,       \* analysis main: the accumulators behind the four locks
    local,      \* core main: per combination, the rows of its closure
    all_data,   \* core main: the rows collected from the parallel map
    store,      \* the rows written to the persistent store
    ds,         \* analysis main: position of `for dataset in &datasets`
    wtask,      \* analysis main: per dataset, the state of its writer task
    l_in,       \* linear_interpolate called on its own: the inputs
    l_out,      \* linear_interpolate called on its own: the result
    l_calls,    \* the (x, y) it has handed to Interp1d::new_sorted
    warnings,   \* the [WARN] lines main has written for the engine call
    emitted,    \* the rows main has pushed for the engine call
    w_in,       \* a writer of the store called on its own: the inputs
    w,          \* position of that writer, and the traces loaded back
    db          \* the store: committed rows, rows of the open transaction

engineVars == <<variant, args, rng_salt, pc, t, reps, agg, out, hist>>
aggVars == <<a_in, a_out>>
batchVars == <<combinations, bpc, work, jobs, accs, local, all_data, store, ds, wtask>>
interpVars == <<l_in, l_out, l_calls>>
emitVars == <<warnings, emitted>>
sinkVars == <<w_in, w, db>>
vars == <<variant, args, rng_salt, pc, t, reps, agg, out, hist, a_in, a_out,
          combinations, bpc, work, jobs, accs, local, all_data, store, ds, wtask,
          l_in, l_out, l_calls, warnings, emitted, w_in, w, db>>

----------------------------------------------------------------------------
(* Bounds of the model *)

\* longest sample pair (len(x) = len(y) <= MaxN)
MaxN == 2
\* largest number of bootstrap replicates
MaxBoot == 2
\* largest number of curves handed to aggregate_curves called on its own
MaxCurves == 3
\* bits of significand of the modelled floating-point numbers (f64 has 53)
MantBits == 5
\* largest number of combinations of a batch
MaxCombos == 3
\* number of target FNRs of a batch (main has 5)
MaxFnrs == 2
\* number of quality thresholds of a job of a batch (main has 20)
MaxGrid == 2
\* number of datasets analysis main loops over (main has 4)
MaxDatasets == 2
\* largest number of rows handed to a writer of the store called on its own
MaxRows == 2

----------------------------------------------------------------------------
(* f64 as binary floating point: a finite value is a rational <<num, den>>  *)
(* in lowest terms whose significand fits in MantBits bits, and every       *)
(* arithmetic operation rounds its exact result to the nearest such value,  *)
(* ties to even.  The exponent is unbounded (no overflow, no underflow).    *)

RECURSIVE GCD(_, _)
GCD(a, b) == IF b = 0 THEN a ELSE GCD(b, a % b)

Abs(n) == IF n < 0 THEN -n ELSE n

RECURSIVE Pow2(_)
Pow2(k) == IF k = 0 THEN 1 ELSE 2 * Pow2(k - 1)

\* the exact rational n / d with d > 0, in lowest terms
Rat(n, d) == LET g == GCD(Abs(n), d) IN <<n \div g, d \div g>>

NaN == <<0, 0>>
Zero == <<0, 1>>
One == <<1, 1>>
IsNaN(a) == a[2] = 0
FromInt(n) == <<n, 1>>

RECURSIVE UpScale(_, _)
\* the power of two that lifts a / d to at least 2^(MantBits-1)
UpScale(a, d) == IF a >= Pow2(MantBits - 1) * d THEN 1 ELSE 2 * UpScale(2 * a, d)

RECURSIVE DownScale(_, _)
\* the power of two that brings a / d below 2^MantBits
DownScale(a, d) == IF a < Pow2(MantBits) * d THEN 1 ELSE 2 * DownScale(a, 2 * d)

\* round-to-nearest, ties-to-even, of the exact rational r
Fl(r) ==
    IF r[2] = 0 \/ r[1] = 0 THEN r
    ELSE LET a == Abs(r[1])
             up == UpScale(a, r[2])
             down == DownScale(a, r[2])
             num == a * up
             den == r[2] * down
             q == num \div den
             rem == num % den
             m == IF 2 * rem > den \/ (2 * rem = den /\ q % 2 = 1) THEN q + 1 ELSE q
         IN  Rat((IF r[1] < 0 THEN -1 ELSE 1) * m * down, up)

\* the f64 nearest to the decimal n / d; also `n as f64 / d as f64`
F(n, d) == Fl(Rat(n, d))

\* IEEE comparisons: every comparison with NaN is false
RGe(a, b) == ~IsNaN(a) /\ ~IsNaN(b) /\ a[1] * b[2] >= b[1] * a[2]
RLe(a, b) == RGe(b, a)
RLt(a, b) == ~IsNaN(a) /\ ~IsNaN(b) /\ a[1] * b[2] < b[1] * a[2]
RGt(a, b) == RLt(b, a)

RAdd(a, b) == IF IsNaN(a) \/ IsNaN(b) THEN NaN
              ELSE Fl(Rat(a[1] * b[2] + b[1] * a[2], a[2] * b[2]))
RSub(a, b) == IF IsNaN(a) \/ IsNaN(b) THEN NaN
              ELSE Fl(Rat(a[1] * b[2] - b[1] * a[2], a[2] * b[2]))
RMul(a, b) == IF IsNaN(a) \/ IsNaN(b) THEN NaN
              ELSE Fl(Rat(a[1] * b[1], a[2] * b[2]))
\* a / b; x / 0.0 is not finite and is folded into NaN
RDiv(a, b) == IF IsNaN(a) \/ IsNaN(b) \/ b[1] = 0 THEN NaN
              ELSE IF b[1] > 0 THEN Fl(Rat(a[1] * b[2], a[2] * b[1]))
              ELSE Fl(Rat(-(a[1] * b[2]), a[2] * (-b[1])))

\* h.floor() and h.ceil()
Floor(h) == h[1] \div h[2]
Ceil(h) == -((-h[1]) \div h[2])

\* `as usize` on a float holding an integer: negative values saturate to 0
AsUsize(n) == IF n < 0 THEN 0 ELSE n

\* f64::clamp(0.0, 1.0)
Clamp01(p) == IF RLt(p, Zero) THEN Zero ELSE IF RGt(p, One) THEN One ELSE p

RECURSIVE SumSeq(_)
\* iter().sum::<f64>()
SumSeq(s) == IF s = <<>> THEN Zero ELSE RAdd(SumSeq(SubSeq(s, 1, Len(s) - 1)), s[Len(s)])

RECURSIVE InsertSorted(_, _)
InsertSorted(s, v) ==
    IF s = <<>> THEN <<v>>
    ELSE IF RLe(v, s[1]) THEN <<v>> \o s
    ELSE <<s[1]>> \o InsertSorted(Tail(s), v)

RECURSIVE InsertSortedDesc(_, _)
InsertSortedDesc(s, v) ==
    IF s = <<>> THEN <<v>>
    ELSE IF RGe(v, s[1]) THEN <<v>> \o s
    ELSE <<s[1]>> \o InsertSortedDesc(Tail(s), v)

RECURSIVE SortColDescending(_)
\* mutant of SortCol: the comparator reversed, b.partial_cmp(a)
SortColDescending(s) ==
    IF s = <<>> THEN <<>> ELSE InsertSortedDesc(SortColDescending(Tail(s)), s[1])

RECURSIVE SortCol(_)
\* col.sort_by(|a, b| a.partial_cmp(b).unwrap()) on values that are not NaN
SortCol(s) == IF s = <<>> THEN <<>> ELSE InsertSorted(SortCol(Tail(s)), s[1])

----------------------------------------------------------------------------
(* Pseudo-random generator (rand::rngs::StdRng).  The generator is a        *)
(* deterministic function of its seed; which function is left open by       *)
(* rng_salt, fixed for a whole run.  A generator state is a number 0..7.    *)

RngStates == 0 .. 7

\* mutant of seed_from_u64: the seed also depends on the iteration of the
\* quality-threshold loop, as with one generator carried across iterations
seed_from_iteration(i) == (rng_salt + 3 * i + t) % 8

\* StdRng::seed_from_u64(i as u64)
seed_from_u64(i) == (rng_salt + 3 * i) % 8

\* one step of the generator
rng_next(s) == (5 * s + 1) % 8

\* rng.gen_range(0..n), n > 0: the index drawn and the generator's next state
gen_range(s, n) == [idx |-> (rng_next(s) \div 2) % n, s |-> rng_next(s)]

RECURSIVE DrawIndices(_, _, _)
\* the k indices drawn by the loop `for _ in 0..n { rng.gen_range(0..n) }`
DrawIndices(s, n, k) ==
    IF k = 0 THEN <<>>
    ELSE LET g == gen_range(s, n) IN <<g.idx>> \o DrawIndices(g.s, n, k - 1)

\* bootstrap_sample(x, y, n, rng): n draws of a 0-based index in [0, n);
\* x[idx] and y[idx] panic when idx is out of the bounds of the slice
bootstrap_sample(x, y, n, s) ==
    LET idxs == DrawIndices(s, n, n)
        ok == \A k \in 1 .. n : idxs[k] < Len(x) /\ idxs[k] < Len(y)
    IN  IF ok
        THEN [ok |-> TRUE,
              xb |-> [k \in 1 .. n |-> x[idxs[k] + 1]],
              yb |-> [k \in 1 .. n |-> y[idxs[k] + 1]],
              idx |-> idxs]
        ELSE [ok |-> FALSE, xb |-> <<>>, yb |-> <<>>, idx |-> idxs]

----------------------------------------------------------------------------
(* Confusion-count evaluator *)

\* mutant of n_y_high: the y = 1.0 samples are counted too
n_y_high_with_perfect(yb, thy) == Cardinality({k \in DOMAIN yb : RGe(yb[k], thy)})

\* yb.iter().filter(|&&v| v >= thy && v < 1.0).count()
n_y_high(yb, thy) ==
    Cardinality({k \in DOMAIN yb : RGe(yb[k], thy) /\ RLt(yb[k], One)})

\* mutant of compute_precision_fnr: the score comparison reversed (xi <= th)
compute_precision_fnr_reversed(xb, yb, thy, quantiles) ==
    LET high == Cardinality({k \in DOMAIN yb : RGe(yb[k], thy) /\ RLt(yb[k], One)})
        tp(th) == Cardinality({k \in DOMAIN xb : RLe(xb[k], th) /\ RGe(yb[k], thy)})
        fn_val(th) == Cardinality({k \in DOMAIN xb : RLe(xb[k], th) /\ RLt(yb[k], thy)})
    IN  [p |-> [j \in DOMAIN quantiles |->
                  IF high = 0 THEN One ELSE F(tp(quantiles[j]), Len(yb))],
         f |-> [j \in DOMAIN quantiles |->
                  IF high = 0 THEN One ELSE F(fn_val(quantiles[j]), Len(yb))]]

\* src/src/compute_robust.rs: saturation (1, 1), counts over all yb
compute_precision_fnr(xb, yb, thy, quantiles) ==
    LET tp(th) == Cardinality({k \in DOMAIN xb : RGe(xb[k], th) /\ RGe(yb[k], thy)})
        fn_val(th) == Cardinality({k \in DOMAIN xb : RGe(xb[k], th) /\ RLt(yb[k], thy)})
    IN  [p |-> [j \in DOMAIN quantiles |->
                  IF n_y_high(yb, thy) = 0 THEN One
                  ELSE F(tp(quantiles[j]), Len(yb))],
         f |-> [j \in DOMAIN quantiles |->
                  IF n_y_high(yb, thy) = 0 THEN One
                  ELSE F(fn_val(quantiles[j]), Len(yb))]]

\* mutant of compute_tp_fn: the tp count without `yi < 1.0`
compute_tp_fn_all_y(xb, yb, thy, quantiles) ==
    LET high == Cardinality({k \in DOMAIN yb : RGe(yb[k], thy) /\ RLt(yb[k], One)})
        tp_val(th) == Cardinality({k \in DOMAIN xb : RGe(xb[k], th) /\ RGe(yb[k], thy)})
        fn_val(th) == Cardinality({k \in DOMAIN xb :
                         RGe(xb[k], th) /\ RLt(yb[k], thy) /\ RLt(yb[k], One)})
    IN  [p |-> [j \in DOMAIN quantiles |->
                  IF high = 0 THEN Zero ELSE F(tp_val(quantiles[j]), Len(yb))],
         f |-> [j \in DOMAIN quantiles |->
                  IF high = 0 THEN Zero ELSE F(fn_val(quantiles[j]), Len(yb))]]

\* analysis/metrics/precision.rs: saturation (0, 0), counts over yb < 1.0
compute_tp_fn(xb, yb, thy, quantiles) ==
    LET tp_val(th) == Cardinality({k \in DOMAIN xb :
                         RGe(xb[k], th) /\ RGe(yb[k], thy) /\ RLt(yb[k], One)})
        fn_val(th) == Cardinality({k \in DOMAIN xb :
                         RGe(xb[k], th) /\ RLt(yb[k], thy) /\ RLt(yb[k], One)})
    IN  [p |-> [j \in DOMAIN quantiles |->
                  IF n_y_high(yb, thy) = 0 THEN Zero
                  ELSE F(tp_val(quantiles[j]), Len(yb))],
         f |-> [j \in DOMAIN quantiles |->
                  IF n_y_high(yb, thy) = 0 THEN Zero
                  ELSE F(fn_val(quantiles[j]), Len(yb))]]

----------------------------------------------------------------------------
(* Curve aggregator (the same code in both variants) *)

Modes == {"mean", "percentile"}

\* curves[0] on an empty slice and the `_ => panic!` arm
aggregate_panics(curves, method) == curves = <<>> \/ method \notin Modes

\* curves.iter().map(|v| v[i]).collect(), i 1-based
Column(curves, i) == [c \in 1 .. Len(curves) |-> curves[c][i]]

\* mutant of mean_at: the sum divided by the grid length n instead of len
mean_at_grid_len(curves, i, len) ==
    RDiv(SumSeq(Column(curves, i)), FromInt(Len(curves[1])))

\* the "mean" arm: sum of the column divided by the `len` argument
mean_at(curves, i, len) == RDiv(SumSeq(Column(curves, i)), FromInt(len))

\* mutant of percentile_at: the column is not sorted
percentile_at_unsorted(curves, i, percentile) ==
    LET col == Column(curves, i)
        m == Len(col)
        h == RMul(FromInt(m - 1), Clamp01(percentile))
        i0 == AsUsize(Floor(h))
        i1 == AsUsize(Ceil(h))
        frac == RSub(h, FromInt(i0))
    IN  IF m = 1 THEN col[1]
        ELSE RAdd(RMul(RSub(One, frac), col[i0 + 1]), RMul(frac, col[i1 + 1]))

\* the "percentile" arm at one grid position
percentile_at(curves, i, percentile) ==
    LET col == SortCol(Column(curves, i))
        m == Len(col)
        h == RMul(FromInt(m - 1), Clamp01(percentile))
        i0 == AsUsize(Floor(h))
        i1 == AsUsize(Ceil(h))
        frac == RSub(h, FromInt(i0))
    IN  IF m = 1 THEN col[1]
        ELSE RAdd(RMul(RSub(One, frac), col[i0 + 1]), RMul(frac, col[i1 + 1]))

\* aggregate_curves(curves, method, percentile, len), when it does not panic
aggregate_curves(curves, method, percentile, len) ==
    LET n == Len(curves[1])
    IN  IF method = "mean"
        THEN [i \in 1 .. n |-> mean_at(curves, i, len)]
        ELSE [i \in 1 .. n |-> percentile_at(curves, i, percentile)]

----------------------------------------------------------------------------
(* Robust-point interpolator *)

\* Interp1d::new_sorted(x, y) of the interp1d crate succeeds on a usable
\* domain: same lengths, at least two points, strictly ascending x
Interp1d_new_sorted_ok(xs, ys) ==
    /\ Len(xs) = Len(ys)
    /\ Len(xs) >= 2
    /\ \A k \in 1 .. Len(xs) - 1 : RLt(xs[k], xs[k + 1])

\* Interp1d::interpolate(xi) on a usable domain: piecewise linear, the
\* nearest endpoint outside the domain
Interp1d_interpolate(xs, ys, xi) ==
    IF IsNaN(xi) THEN NaN
    ELSE IF RLe(xi, xs[1]) THEN ys[1]
    ELSE IF RGe(xi, xs[Len(xs)]) THEN ys[Len(xs)]
    ELSE LET k == CHOOSE k \in 1 .. Len(xs) - 1 : RLe(xs[k], xi) /\ RLt(xi, xs[k + 1])
         IN  RAdd(ys[k], RDiv(RMul(RSub(ys[k + 1], ys[k]), RSub(xi, xs[k])),
                              RSub(xs[k + 1], xs[k])))

\* linear_interpolate of src/src/compute_robust.rs gets past its two early
\* returns and hands x to Interp1d::new_sorted
reaches_new_sorted(xs, xi, n) == ~RLe(xi, xs[1]) /\ ~RGe(xi, xs[n])

\* the domain linear_interpolate of analysis/metrics/precision.rs hands to
\* Interp1d::new_sorted: f.push(0.0); f.extend_from_slice(&fnr)
domain_analysis(fnr) == <<Zero>> \o fnr

\* the (x, y) one call of linear_interpolate of src/src/compute_robust.rs
\* hands to Interp1d::new_sorted
calls_core(xs, ys, xi, n) ==
    IF reaches_new_sorted(xs, xi, n) THEN <<[x |-> xs, y |-> ys]>> ELSE <<>>

\* mutant of linear_interpolate_core: `xi < x[0]` in the first test
linear_interpolate_core_strict(xs, ys, xi, n) ==
    IF RLt(xi, xs[1]) THEN [ok |-> TRUE, v |-> NaN]
    ELSE IF RGe(xi, xs[n]) THEN [ok |-> TRUE, v |-> ys[n]]
    ELSE IF Interp1d_new_sorted_ok(xs, ys)
         THEN [ok |-> TRUE, v |-> Interp1d_interpolate(xs, ys, xi)]
         ELSE [ok |-> FALSE, v |-> NaN]

\* src/src/compute_robust.rs linear_interpolate(x, y, xi, n) -> Result
linear_interpolate_core(xs, ys, xi, n) ==
    IF RLe(xi, xs[1]) THEN [ok |-> TRUE, v |-> NaN]
    ELSE IF RGe(xi, xs[n]) THEN [ok |-> TRUE, v |-> ys[n]]
    ELSE IF Interp1d_new_sorted_ok(xs, ys)
         THEN [ok |-> TRUE, v |-> Interp1d_interpolate(xs, ys, xi)]
         ELSE [ok |-> FALSE, v |-> NaN]

\* the interpolation step of precision_at_robust: (thx, precision_at_q)
interpolate_core(precision_agg, fnr_agg, quantiles, q) ==
    LET n == Len(quantiles)
        th_val == linear_interpolate_core(fnr_agg, quantiles, q, n)
        prec_val == linear_interpolate_core(fnr_agg, precision_agg, q, n)
    IN  IF th_val.ok /\ prec_val.ok
        THEN [thx |-> th_val.v, p |-> prec_val.v]
        ELSE [thx |-> NaN, p |-> NaN]

\* the precision values next to that domain:
\* p.push(1.0); p.extend_from_slice(&tp)
p_analysis(tp) == <<One>> \o tp

\* the thresholds next to that domain:
\* q.extend_from_slice(&quantiles); q.push(1.0)
q_analysis(quantiles) == quantiles \o <<One>>

\* the (x, y) linear_interpolate of analysis/metrics/precision.rs hands to
\* Interp1d::new_sorted: (f, p), then (f, q)
calls_analysis(tp, fnr, quantiles) ==
    <<[x |-> domain_analysis(fnr), y |-> p_analysis(tp)],
      [x |-> domain_analysis(fnr), y |-> q_analysis(quantiles)]>>

\* analysis/metrics/precision.rs linear_interpolate(tp, fnr, quantiles, xi, n)
linear_interpolate_analysis(tp, fnr, quantiles, xi) ==
    LET p == p_analysis(tp)
        f == domain_analysis(fnr)
        q == q_analysis(quantiles)
    IN  [thx |-> IF Interp1d_new_sorted_ok(f, q)
                 THEN Interp1d_interpolate(f, q, xi) ELSE NaN,
         p   |-> IF Interp1d_new_sorted_ok(f, p)
                 THEN Interp1d_interpolate(f, p, xi) ELSE NaN]

----------------------------------------------------------------------------
(* The engine call: precision_at_robust / tp_at_robust *)

\* confidence level picked from the metric name
conf == IF args.inverted THEN F(1, 20) ELSE F(19, 20)

\* the `n` handed to bootstrap_sample
SampleLen == IF variant = "core" THEN Len(args.quantiles) ELSE Len(args.x)

Replicates == 0 .. args.n_bootstrap - 1

\* the evaluator of the running variant
Evaluate(xb, yb, thy) ==
    IF variant = "core" THEN compute_precision_fnr(xb, yb, thy, args.quantiles)
    ELSE compute_tp_fn(xb, yb, thy, args.quantiles)

\* the closure of the parallel map, for replicate i at quality threshold thy
ReplicateTask(i, thy) ==
    LET b == bootstrap_sample(args.x, args.y, SampleLen, seed_from_u64(i))
        c == Evaluate(b.xb, b.yb, thy)
    IN  [ok |-> b.ok, xb |-> b.xb, yb |-> b.yb, p |-> c.p, f |-> c.f]

\* mutant of Thy: every iteration evaluates at the first quality threshold
ThyFirst == args.quality_thresholds[1]

\* the quality threshold of the running iteration of
\* `for &thy in quality_thresholds`
Thy == args.quality_thresholds[t]

Todo == [st |-> "todo", xb |-> <<>>, yb |-> <<>>, p |-> <<>>, f |-> <<>>]
NoAgg == [p |-> <<>>, f |-> <<>>, from |-> <<>>]

\* mutant of JoinComplete: the reduce starts once one replicate has finished
JoinAny == \E i \in Replicates : reps[i].st = "done"

\* the parallel map and unzip return once every replicate has finished
JoinComplete == \A i \in Replicates : reps[i].st = "done"

RECURSIVE Finished(_)
\* the finished replicates below k, in index order (unzip keeps index order)
Finished(k) ==
    IF k = 0 THEN <<>>
    ELSE Finished(k - 1) \o (IF reps[k - 1].st = "done" THEN <<k - 1>> ELSE <<>>)

\* one replicate runs to completion on a worker of the pool
Replicate(i) ==
    /\ pc = "sampling"
    /\ reps[i].st = "todo"
    /\ LET r == ReplicateTask(i, Thy)
       IN  /\ r.ok
           /\ reps' = [reps EXCEPT ![i] =
                         [st |-> "done", xb |-> r.xb, yb |-> r.yb, p |-> r.p, f |-> r.f]]
    /\ UNCHANGED <<variant, args, rng_salt, pc, t, agg, out, hist, a_in, a_out>>
    /\ UNCHANGED batchVars
    /\ UNCHANGED <<interpVars, emitVars, sinkVars>>

\* x[idx] out of bounds inside a replicate: the panic unwinds the call
ReplicatePanic(i) ==
    /\ pc = "sampling"
    /\ reps[i].st = "todo"
    /\ ~ReplicateTask(i, Thy).ok
    /\ pc' = "panicked"
    /\ UNCHANGED <<variant, args, rng_salt, t, reps, agg, out, hist, a_in, a_out>>
    /\ UNCHANGED batchVars
    /\ UNCHANGED <<interpVars, emitVars, sinkVars>>

\* the two aggregate_curves calls after the parallel map
Aggregate ==
    /\ pc = "sampling"
    /\ JoinComplete
    /\ LET from == Finished(args.n_bootstrap)
           p_curves == [k \in 1 .. Len(from) |-> reps[from[k]].p]
           f_curves == [k \in 1 .. Len(from) |-> reps[from[k]].f]
       IN  /\ ~aggregate_panics(p_curves, args.method)
           /\ agg' = [p |-> aggregate_curves(p_curves, args.method,
                                             RSub(One, conf), args.n_bootstrap),
                      f |-> aggregate_curves(f_curves, args.method,
                                             conf, args.n_bootstrap),
                      from |-> from]
    /\ pc' = "interpolating"
    /\ UNCHANGED <<variant, args, rng_salt, t, reps, out, hist, a_in, a_out>>
    /\ UNCHANGED batchVars
    /\ UNCHANGED <<interpVars, emitVars, sinkVars>>

\* aggregate_curves panics (unknown method): the panic unwinds the call
AggregatePanic ==
    /\ pc = "sampling"
    /\ JoinComplete
    /\ aggregate_panics([k \in 1 .. args.n_bootstrap |-> reps[k - 1].p], args.method)
    /\ pc' = "panicked"
    /\ UNCHANGED <<variant, args, rng_salt, t, reps, agg, out, hist, a_in, a_out>>
    /\ UNCHANGED batchVars
    /\ UNCHANGED <<interpVars, emitVars, sinkVars>>

\* linear interpolation at the target FNR, the two pushes, and the next
\* iteration of `for &thy in quality_thresholds`
Interpolate ==
    /\ pc = "interpolating"
    /\ LET r == IF variant = "core"
                THEN interpolate_core(agg.p, agg.f, args.quantiles, args.q)
                ELSE linear_interpolate_analysis(agg.p, agg.f, args.quantiles, args.q)
       IN  out' = [all_p |-> Append(out.all_p, r.p),
                   all_thx |-> Append(out.all_thx, r.thx)]
    /\ hist' = [i \in Replicates |-> [xb |-> reps[i].xb, yb |-> reps[i].yb]]
    /\ reps' = [i \in Replicates |-> Todo]
    /\ agg' = NoAgg
    /\ t' = t + 1
    /\ pc' = IF t = Len(args.quality_thresholds) THEN "done" ELSE "sampling"
    /\ UNCHANGED <<variant, args, rng_salt, a_in, a_out>>
    /\ UNCHANGED batchVars
    /\ UNCHANGED <<interpVars, emitVars, sinkVars>>

\* f64::EPSILON: the gap between 1.0 and the next larger value
EPSILON == Rat(1, Pow2(MantBits - 1))

\* f64::abs
RAbs(a) == <<Abs(a[1]), a[2]>>

\* curve.iter().all(|&v| (v - 1.0).abs() < f64::EPSILON)
all_ones(curve) == \A k \in DOMAIN curve : RLt(RAbs(RSub(curve[k], One)), EPSILON)

\* mutant of warn_lines: both tests read `thresholds`
warn_lines_thresholds_twice(prec_curves, thresholds) ==
    IF variant = "core"
    THEN {kind \in {"precision", "threshold"} : all_ones(thresholds)}
    ELSE {}

\* the [WARN] lines core main writes to stderr for (prec_curves, thresholds);
\* analysis main has no such test
warn_lines(prec_curves, thresholds) ==
    IF variant = "core"
    THEN {kind \in {"precision", "threshold"} :
             all_ones(IF kind = "precision" THEN prec_curves ELSE thresholds)}
    ELSE {}

\* main takes the result of the engine call: the test for a degenerate
\* curve, then the push of the row
EmitRow ==
    /\ pc = "done"
    /\ warnings' = warn_lines(out.all_p, out.all_thx)
    /\ emitted' = Append(emitted, [fnr |-> args.q, th |-> out.all_thx,
                                    xs |-> args.quality_thresholds, ys |-> out.all_p])
    /\ pc' = "emitted"
    /\ UNCHANGED <<variant, args, rng_salt, t, reps, agg, out, hist, a_in, a_out>>
    /\ UNCHANGED batchVars
    /\ UNCHANGED <<interpVars, sinkVars>>

----------------------------------------------------------------------------
(* Inputs *)

\* (x, y) pairs of the sample: y = 1 marks a "perfect" sample
SamplePairs == {<<F(1, 2), F(7, 10)>>, <<F(1, 2), F(2, 5)>>, <<F(9, 10), One>>}

RECURSIVE SeqsUpTo(_, _)
\* all sequences over S of length at most n
SeqsUpTo(S, n) ==
    IF n = 0 THEN {<<>>}
    ELSE LET shorter == SeqsUpTo(S, n - 1)
         IN  shorter \cup {Append(s, e) : s \in {u \in shorter : Len(u) = n - 1}, e \in S}

\* Quantile Grids and Quality Threshold Grids, ascending as main builds them
QuantileGrids == {<<F(1, 4)>>, <<F(1, 4), F(3, 4)>>}
QualityGrids == {<<F(3, 5)>>, <<F(1, 2), F(4, 5)>>}
TargetFnrs == {F(1, 20), F(1, 4)}

\* (method, metric name contains "adpl")
Configs == {<<"mean", FALSE>>, <<"percentile", FALSE>>, <<"percentile", TRUE>>,
            <<"median", FALSE>>}

AggIdle == /\ a_in = [curves |-> <<>>, method |-> "mean", p |-> Zero]
           /\ a_out = <<>>

\* main is not running
BatchIdle ==
    /\ combinations = <<>>
    /\ bpc = "idle"
    /\ work = <<>>
    /\ jobs = <<>>
    /\ accs = [scalar_cols |-> <<>>, xs_vecs |-> <<>>, th_vecs |-> <<>>, ys_vecs |-> <<>>]
    /\ local = <<>>
    /\ all_data = <<>>
    /\ store = <<>>
    /\ ds = 1
    /\ wtask = <<>>

\* linear_interpolate is not being called on its own
InterpIdle ==
    /\ l_in = [fn |-> "core", fnr |-> <<>>, prec |-> <<>>, quantiles |-> <<>>, xi |-> Zero]
    /\ l_out = [st |-> "idle", thx |-> NaN, p |-> NaN]
    /\ l_calls = <<>>

\* main has not handled the result of an engine call
EmitIdle ==
    /\ warnings = {}
    /\ emitted = <<>>

\* no writer of the store is being called on its own
SinkIdle ==
    /\ w_in = [writer |-> "core", traces |-> <<>>, table_from |-> "main", fail_at |-> 0]
    /\ w = [pc |-> "idle", k |-> 1, loaded |-> <<>>]
    /\ db = [committed |-> <<>>, tx |-> <<>>]

Init ==
    /\ variant \in {"core", "analysis"}
    /\ \E s \in SeqsUpTo(SamplePairs, MaxN), qg \in QuantileGrids, tg \in QualityGrids,
          nb \in 1 .. MaxBoot, c \in Configs, q \in TargetFnrs :
          args = [x |-> [k \in 1 .. Len(s) |-> s[k][1]],
                  y |-> [k \in 1 .. Len(s) |-> s[k][2]],
                  quantiles |-> qg, quality_thresholds |-> tg,
                  n_bootstrap |-> nb, method |-> c[1], inverted |-> c[2], q |-> q]
    /\ rng_salt \in RngStates
    /\ pc = "sampling"
    /\ t = 1
    /\ reps = [i \in Replicates |-> Todo]
    /\ agg = NoAgg
    /\ out = [all_p |-> <<>>, all_thx |-> <<>>]
    /\ hist = <<>>
    /\ AggIdle
    /\ BatchIdle
    /\ InterpIdle
    /\ EmitIdle
    /\ SinkIdle

Next ==
    \/ \E i \in Replicates : Replicate(i)
    \/ \E i \in Replicates : ReplicatePanic(i)
    \/ Aggregate
    \/ AggregatePanic
    \/ Interpolate
    \/ EmitRow

Spec == Init /\ [][Next]_vars

----------------------------------------------------------------------------
(* Claims about the sampler and the parallel replicates *)

Done(i) == reps[i].st = "done"

\* C1: for non-empty x, y of equal length n, the resample used for every
\* replicate has exactly len(x) elements in xb and in yb, and every pair
\* (xb[k], yb[k]) is an original pair (x[j], y[j]).
C1_ResampleOfOriginalLength ==
    \A i \in Replicates :
        (pc \in {"sampling", "interpolating"} /\ Done(i) /\ Len(args.x) >= 1) =>
            /\ Len(reps[i].xb) = Len(args.x)
            /\ Len(reps[i].yb) = Len(args.x)
            /\ \A k \in DOMAIN reps[i].xb :
                   \E j \in DOMAIN args.x :
                       reps[i].xb[k] = args.x[j] /\ reps[i].yb[k] = args.y[j]

\* C1, the part of the claim the core variant keeps: each resampled pair is
\* an original pair (the length is len(quantiles), not len(x)).
C1_PairsAreOriginal ==
    \A i \in Replicates :
        (pc \in {"sampling", "interpolating"} /\ Done(i)) =>
            \A k \in DOMAIN reps[i].xb :
                \E j \in DOMAIN args.x :
                    reps[i].xb[k] = args.x[j] /\ reps[i].yb[k] = args.y[j]

RefPoint(k) ==
    LET thy == args.quality_thresholds[k]
        p_curves == [j \in 1 .. args.n_bootstrap |-> ReplicateTask(j - 1, thy).p]
        f_curves == [j \in 1 .. args.n_bootstrap |-> ReplicateTask(j - 1, thy).f]
        p_agg == aggregate_curves(p_curves, args.method, RSub(One, conf), args.n_bootstrap)
        f_agg == aggregate_curves(f_curves, args.method, conf, args.n_bootstrap)
    IN  IF variant = "core"
        THEN interpolate_core(p_agg, f_agg, args.quantiles, args.q)
        ELSE linear_interpolate_analysis(p_agg, f_agg, args.quantiles, args.q)

\* C3: for every scheduling of the replicates the engine returns the same
\* output: an aggregate is computed only when all replicates have finished,
\* from exactly n_bootstrap curves, one of each replicate index, and every
\* output point equals the point determined by the arguments alone (each
\* point is compared in the state that follows its push).
C3_ScheduleIndependent ==
    /\ pc = "interpolating" =>
          /\ \A i \in Replicates : Done(i)
          /\ agg.from = [k \in 1 .. args.n_bootstrap |-> k - 1]
          /\ \A j \in DOMAIN agg.p : Len(Column([k \in 1 .. Len(agg.from) |->
                                         reps[agg.from[k]].p], j)) = args.n_bootstrap
    /\ (pc \in {"sampling", "done"} /\ t > 1 /\ \A i \in Replicates : ~Done(i)) =>
          /\ Len(out.all_p) = t - 1
          /\ Len(out.all_thx) = t - 1
          /\ out.all_p[t - 1] = RefPoint(t - 1).p
          /\ out.all_thx[t - 1] = RefPoint(t - 1).thx

\* a call with two replicates and two quality thresholds has returned
C3_Witness ==
    /\ pc = "done"
    /\ args.n_bootstrap = 2
    /\ Len(out.all_p) = 2
    /\ Len(args.x) = 2
    /\ \E k \in 1 .. 2 : ~IsNaN(out.all_p[k])

\* C4: sampling from zero-length inputs fails with EmptySample: no resample
\* and no curve is produced, and the call does not return normally.
C4_EmptySampleFails ==
    Len(args.x) = 0 =>
        /\ \A i \in Replicates : ~Done(i)
        /\ pc \notin {"interpolating", "done"}
        /\ out.all_p = <<>>

----------------------------------------------------------------------------
(* Claims about the confusion-count evaluator, stated on the resample and   *)
(* the curves of every finished replicate                                   *)

Evaluated(i) == pc \in {"sampling", "interpolating"} /\ Done(i)

\* number of resampled y with thy <= y < 1.0
HighCount(yb, thy) == Cardinality({k \in DOMAIN yb : RGe(yb[k], thy) /\ RLt(yb[k], One)})

\* count(xb[k] >= th AND yb[k] >= thy)
CountAccepted(xb, yb, th, thy) ==
    Cardinality({k \in DOMAIN xb : RGe(xb[k], th) /\ RGe(yb[k], thy)})

\* count(xb[k] >= th AND thy <= yb[k] < 1.0)
CountAcceptedImperfect(xb, yb, th, thy) ==
    Cardinality({k \in DOMAIN xb : RGe(xb[k], th) /\ RGe(yb[k], thy) /\ RLt(yb[k], One)})

\* count(xb[k] >= th AND yb[k] < thy)
CountRejected(xb, yb, th, thy) ==
    Cardinality({k \in DOMAIN xb : RGe(xb[k], th) /\ RLt(yb[k], thy)})

\* C5 as stated: with high != 0, in both variants precision[th] is
\* count(xb >= th AND yb >= thy) / n and fnr[th] is count(xb >= th AND yb < thy) / n.
C5_CountsOverAllY ==
    \A i \in Replicates :
        (Evaluated(i) /\ HighCount(reps[i].yb, Thy) # 0) =>
            \A j \in DOMAIN args.quantiles :
                /\ reps[i].p[j] = F(CountAccepted(reps[i].xb, reps[i].yb,
                                          args.quantiles[j], Thy), Len(reps[i].yb))
                /\ reps[i].f[j] = F(CountRejected(reps[i].xb, reps[i].yb,
                                          args.quantiles[j], Thy), Len(reps[i].yb))

\* C5 amended: with high != 0, fnr[th] is count(xb >= th AND yb < thy) / n in
\* both variants; precision[th] is count(xb >= th AND yb >= thy) / n in the
\* core variant, and count(xb >= th AND thy <= yb < 1.0) / n in the analysis
\* variant, which leaves the y = 1.0 samples out of the count.
C5_CountsPerVariant ==
    \A i \in Replicates :
        (Evaluated(i) /\ HighCount(reps[i].yb, Thy) # 0) =>
            \A j \in DOMAIN args.quantiles :
                /\ reps[i].p[j] =
                     IF variant = "core"
                     THEN F(CountAccepted(reps[i].xb, reps[i].yb,
                                  args.quantiles[j], Thy), Len(reps[i].yb))
                     ELSE F(CountAcceptedImperfect(reps[i].xb, reps[i].yb,
                                  args.quantiles[j], Thy), Len(reps[i].yb))
                /\ reps[i].f[j] = F(CountRejected(reps[i].xb, reps[i].yb,
                                          args.quantiles[j], Thy), Len(reps[i].yb))

\* an analysis replicate with high != 0 whose resample holds a y = 1.0 that
\* passes the score threshold, so that its tp value is not the count over all y
C5_Witness ==
    \E i \in Replicates :
        /\ Evaluated(i)
        /\ variant = "analysis"
        /\ HighCount(reps[i].yb, Thy) # 0
        /\ \E k \in DOMAIN reps[i].yb :
               reps[i].yb[k] = One /\ RGe(reps[i].xb[k], args.quantiles[1])
        /\ reps[i].p[1] # F(CountAccepted(reps[i].xb, reps[i].yb,
                                   args.quantiles[1], Thy), Len(reps[i].yb))

C7_MonotoneInThreshold ==
    \A i \in Replicates :
        Evaluated(i) =>
            \A j1, j2 \in DOMAIN args.quantiles :
                RLe(args.quantiles[j1], args.quantiles[j2]) =>
                    /\ RGe(reps[i].p[j1], reps[i].p[j2])
                    /\ RGe(reps[i].f[j1], reps[i].f[j2])

\* a replicate whose two curves both strictly fall along the grid
C7_Witness ==
    \E i \in Replicates :
        /\ Evaluated(i)
        /\ Len(args.quantiles) = 2
        /\ RGt(reps[i].p[1], reps[i].p[2])
        /\ RGt(reps[i].f[1], reps[i].f[2])

----------------------------------------------------------------------------
(* aggregate_curves called on its own, over a wider range of inputs than    *)
(* the engine hands it: any percentile, up to MaxCurves curves             *)

CurveValues == {Zero, F(3, 4), One}
Percentiles == {F(-1, 2), Zero, F(1, 20), F(1, 4), F(1, 2), F(19, 20), One,
                F(3, 2)}

\* curves aligned to a grid of two positions
AggCurves == [1 .. 2 -> CurveValues]

RECURSIVE SeqsOfLen(_, _)
\* all sequences over S of length exactly n
SeqsOfLen(S, n) ==
    IF n = 0 THEN {<<>>}
    ELSE {Append(s, e) : s \in SeqsOfLen(S, n - 1), e \in S}

EngineIdle ==
    /\ variant = "core"
    /\ args = [x |-> <<>>, y |-> <<>>, quantiles |-> <<>>, quality_thresholds |-> <<>>,
               n_bootstrap |-> 0, method |-> "mean", inverted |-> FALSE, q |-> Zero]
    /\ rng_salt = 0
    /\ pc = "idle"
    /\ t = 1
    /\ reps = <<>>
    /\ agg = NoAgg
    /\ out = [all_p |-> <<>>, all_thx |-> <<>>]
    /\ hist = <<>>

InitAgg ==
    /\ EngineIdle
    /\ \E m \in 1 .. MaxCurves :
          \E cs \in SeqsOfLen(AggCurves, m) :
             \/ /\ a_in \in {[curves |-> cs, method |-> md, p |-> F(1, 2)] :
                                md \in {"mean", "median"}}
             \/ \E pp \in Percentiles :
                   a_in = [curves |-> cs, method |-> "percentile", p |-> pp]
    /\ a_out = [st |-> "called", v |-> <<>>]
    /\ BatchIdle
    /\ InterpIdle
    /\ EmitIdle
    /\ SinkIdle

\* the call returns the aggregated curve; len is the number of curves, as
\* at every call site
AggReturn ==
    /\ a_out.st = "called"
    /\ ~aggregate_panics(a_in.curves, a_in.method)
    /\ a_out' = [st |-> "ok",
                 v |-> aggregate_curves(a_in.curves, a_in.method, a_in.p,
                                        Len(a_in.curves))]
    /\ UNCHANGED <<a_in, variant, args, rng_salt, pc, t, reps, agg, out, hist>>
    /\ UNCHANGED batchVars
    /\ UNCHANGED <<interpVars, emitVars, sinkVars>>

\* the call panics
AggPanic ==
    /\ a_out.st = "called"
    /\ aggregate_panics(a_in.curves, a_in.method)
    /\ a_out' = [st |-> "panicked", v |-> <<>>]
    /\ UNCHANGED <<a_in, variant, args, rng_salt, pc, t, reps, agg, out, hist>>
    /\ UNCHANGED batchVars
    /\ UNCHANGED <<interpVars, emitVars, sinkVars>>

NextAgg == AggReturn \/ AggPanic

SpecAgg == InitAgg /\ [][NextAgg]_vars

----------------------------------------------------------------------------
(* Claims about the aggregator *)

AggDone(md) == a_out.st = "ok" /\ a_in.method = md
NCurves == Len(a_in.curves)
\* the values of grid position i over all supplied curves
ColumnAt(i) == [c \in 1 .. NCurves |-> a_in.curves[c][i]]

\* number of values of col strictly below / not above v
Below(col, v) == Cardinality({k \in DOMAIN col : RLt(col[k], v)})
NotAbove(col, v) == Cardinality({k \in DOMAIN col : RLe(col[k], v)})

\* the order statistic of 0-based rank r: the value with at most r values
\* below it and more than r values not above it
OrderStat(col, r) ==
    CHOOSE v \in {col[k] : k \in DOMAIN col} : Below(col, v) <= r /\ NotAbove(col, v) > r

RECURSIVE SumInOrder(_, _)
\* ((0.0 + col[1]) + col[2]) + ... + col[k] in f64
SumInOrder(col, k) == IF k = 0 THEN Zero ELSE RAdd(SumInOrder(col, k - 1), col[k])

\* C8: in mode "mean" every grid position holds the arithmetic mean of that
\* position over all supplied curves (the f64 sum of the values, in curve
\* order, divided by the number of curves), and a single curve is returned
\* unchanged.
C8_MeanIsArithmeticMean ==
    AggDone("mean") =>
        /\ Len(a_out.v) = Len(a_in.curves[1])
        /\ \A i \in DOMAIN a_out.v :
               a_out.v[i] = RDiv(SumInOrder(ColumnAt(i), NCurves), FromInt(NCurves))
        /\ NCurves = 1 => a_out.v = a_in.curves[1]

\* the mean of three curves, at a position where it equals none of them
C8_Witness ==
    /\ AggDone("mean")
    /\ NCurves = 3
    /\ \A c \in 1 .. 3 : a_out.v[1] # a_in.curves[c][1]
    /\ a_out.v[2] = a_in.curves[1][2]

\* C9: in mode "percentile" with p = 0.5 over an odd number of curves every
\* grid position holds exactly the median (middle order statistic) of the
\* values at that position.
C9_MedianOfOddCount ==
    (AggDone("percentile") /\ a_in.p = F(1, 2) /\ NCurves % 2 = 1) =>
        \A i \in DOMAIN a_out.v :
            a_out.v[i] = OrderStat(ColumnAt(i), (NCurves - 1) \div 2)

\* three curves whose values at a position are distinct and not in order
C9_Witness ==
    /\ AggDone("percentile")
    /\ a_in.p = F(1, 2)
    /\ NCurves = 3
    /\ RGt(a_in.curves[1][1], a_in.curves[2][1])
    /\ RGt(a_in.curves[3][1], a_in.curves[1][1])
    /\ a_out.v[1] = a_in.curves[1][1]

\* C10 as stated: in mode "percentile" p is clamped to [0, 1] before the
\* rank h = (m - 1) * p is taken: p <= 0 gives the elementwise minimum,
\* p >= 1 the elementwise maximum, every result lies between the floor and
\* the ceiling order statistic of h, and a single curve is returned
\* unchanged for every p.
C10_BetweenOrderStatistics ==
    AggDone("percentile") =>
        \A i \in DOMAIN a_out.v :
            LET col == ColumnAt(i)
                h == RMul(FromInt(NCurves - 1), Clamp01(a_in.p))
            IN  /\ RLe(a_in.p, Zero) => a_out.v[i] = OrderStat(col, 0)
                /\ RGe(a_in.p, One) => a_out.v[i] = OrderStat(col, NCurves - 1)
                /\ RGe(a_out.v[i], OrderStat(col, Floor(h)))
                /\ RLe(a_out.v[i], OrderStat(col, Ceil(h)))
                /\ NCurves = 1 => a_out.v[i] = a_in.curves[1][i]

\* v >= lo * (1 - 4 * 2^-MantBits), in exact arithmetic
AboveUpToRounding(v, lo) ==
    v[1] * lo[2] * Pow2(MantBits) >= lo[1] * (Pow2(MantBits) - 4) * v[2]

\* v <= hi * (1 + 4 * 2^-MantBits), in exact arithmetic
BelowUpToRounding(v, hi) ==
    v[1] * hi[2] * Pow2(MantBits) <= hi[1] * (Pow2(MantBits) + 4) * v[2]

\* C10 amended: p is clamped to [0, 1] before the rank h = (m - 1) * p is
\* taken: p <= 0 gives the elementwise minimum, p >= 1 the elementwise
\* maximum, a result whose rank h is an integer is exactly that order
\* statistic, every other result lies between the floor and the ceiling
\* order statistic of h up to the rounding of the blend (four units of
\* relative rounding error, for non-negative curve values), and a single
\* curve is returned unchanged for every p.
C10_PercentileClamped ==
    AggDone("percentile") =>
        \A i \in DOMAIN a_out.v :
            LET col == ColumnAt(i)
                h == RMul(FromInt(NCurves - 1), Clamp01(a_in.p))
            IN  /\ RLe(a_in.p, Zero) => a_out.v[i] = OrderStat(col, 0)
                /\ RGe(a_in.p, One) => a_out.v[i] = OrderStat(col, NCurves - 1)
                /\ Floor(h) = Ceil(h) => a_out.v[i] = OrderStat(col, Floor(h))
                /\ AboveUpToRounding(a_out.v[i], OrderStat(col, Floor(h)))
                /\ BelowUpToRounding(a_out.v[i], OrderStat(col, Ceil(h)))
                /\ NCurves = 1 => a_out.v[i] = a_in.curves[1][i]

\* p above 1 over three curves whose values at a position are distinct and
\* not in order: the result is the largest of them
C10_Witness ==
    /\ AggDone("percentile")
    /\ NCurves = 3
    /\ a_in.p = F(3, 2)
    /\ RGt(a_in.curves[2][1], a_in.curves[1][1])
    /\ RGt(a_in.curves[2][1], a_in.curves[3][1])
    /\ a_out.v[1] = a_in.curves[2][1]
    /\ a_out.v[1] # a_in.curves[3][1]

----------------------------------------------------------------------------
(* Claims about unknown aggregation modes *)

\* C11: aggregate_curves called with a mode other than "mean" and
\* "percentile" returns a typed UnknownAggregationMode error to its caller:
\* the call ends in the state "error", never in a panic.
C11_UnknownModeIsTypedError ==
    (a_in.method \notin Modes /\ a_out.st # "called") => a_out.st = "error"

\* C12: an unknown aggregation mode is detected before the parallel fan-out:
\* in a call with an unknown mode no bootstrap replicate is ever sampled.
C12_ModeValidatedBeforeFanOut ==
    args.method \notin Modes => \A i \in Replicates : ~Done(i)

----------------------------------------------------------------------------
(* Claims about the interpolator, stated on the step that interpolates the  *)
(* aggregated curves of quality threshold t and pushes the output point t   *)

\* the value at position k occurs only there in the curve
OccursOnce(curve, k) == \A j \in DOMAIN curve : curve[j] = curve[k] => j = k

NonIncreasing(s) == \A k \in 1 .. Len(s) - 1 : RGe(s[k], s[k + 1])
NonDecreasing(s) == \A k \in 1 .. Len(s) - 1 : RLe(s[k], s[k + 1])

\* fewer than two distinct values, or a value that occurs twice
Unusable(curve) ==
    LET distinct == {curve[k] : k \in DOMAIN curve}
    IN  Cardinality(distinct) < 2 \/ Cardinality(distinct) < Len(curve)

\* C13: interpolation is exact at domain points: when the target FNR q
\* equals the value of the aggregated FNR curve at a position k (a value
\* that occurs once, the first and the last position included), the point
\* pushed is exactly the precision and the grid threshold of position k.
C13_ExactAtDomainPoints ==
    [][pc = "interpolating" =>
          \A k \in DOMAIN agg.f :
              (agg.f[k] = args.q /\ OccursOnce(agg.f, k)) =>
                  /\ out'.all_p[t] = agg.p[k]
                  /\ out'.all_thx[t] = args.quantiles[k]]_vars

\* C14: for every aggregated FNR curve that is non-increasing along the
\* Quantile Grid, the domain handed to the sorted-domain interpolator (the
\* injected boundary point included) is in non-decreasing order.
C14_DomainAscending ==
    (pc = "interpolating" /\ NonIncreasing(agg.f)) =>
        IF variant = "core"
        THEN reaches_new_sorted(agg.f, args.q, Len(args.quantiles)) =>
                 NonDecreasing(agg.f)
        ELSE NonDecreasing(domain_analysis(agg.f))

\* C15: when the aggregated FNR curve of a quality threshold is not usable
\* as an interpolation domain, the point pushed for it is NaN in both
\* outputs and the call goes on to the next quality threshold (or returns).
C15_UnusableDomainGivesNaN ==
    [][(pc = "interpolating" /\ Unusable(agg.f)) =>
          /\ IsNaN(out'.all_p[t])
          /\ IsNaN(out'.all_thx[t])
          /\ pc' \in {"sampling", "done"}]_vars

----------------------------------------------------------------------------
(* Claims about the outputs of the engine call *)

\* C16: the two outputs are aligned to quality_thresholds: they grow
\* together, one point per iteration in grid order, and when the call has
\* returned both have exactly len(quality_thresholds) elements and element
\* k of each is the point computed from quality_thresholds[k] alone, also
\* where it is NaN.
C16_OutputsAligned ==
    /\ Len(out.all_p) = Len(out.all_thx)
    /\ pc \in {"sampling", "interpolating"} => Len(out.all_p) = t - 1
    /\ pc = "done" =>
          /\ Len(out.all_p) = Len(args.quality_thresholds)
          /\ \A k \in DOMAIN args.quality_thresholds :
                 /\ out.all_p[k] = RefPoint(k).p
                 /\ out.all_thx[k] = RefPoint(k).thx

\* a call over two quality thresholds has returned a point that is a number
\* followed by a NaN point
C16_Witness ==
    /\ pc = "done"
    /\ Len(args.quality_thresholds) = 2
    /\ ~IsNaN(out.all_p[1])
    /\ ~IsNaN(out.all_thx[1])
    /\ IsNaN(out.all_p[2])

----------------------------------------------------------------------------
(* The orchestrator: main of src/src/compute_robust.rs ("core") and of      *)
(* analysis/src/compute_robust.rs ("analysis").  A job is one engine call,  *)
(* for one combination and one target FNR; the engine call is followed      *)
(* through its phases, with its n_bootstrap = MaxBoot replicates counted.   *)
(* A row is named by its job <<c, f>>.  Analysis main runs load, fan-out    *)
(* and save once per dataset, one dataset after the other; core main runs   *)
(* one fan-out over the combinations of all datasets.  A column of a        *)
(* combination is "full", "empty" (no rows) or "missing" from the table.    *)

\* combinations.par_iter().take(2) of analysis main
TakeCount == 2

Combos == 1 .. Len(combinations)
Fnrs == 1 .. MaxFnrs
Datasets == 1 .. MaxDatasets

\* analysis load_dataset: a needed column that is not in the JSON table
\* (or not in the SQLite cache) ends the load with a panic (or an Err)
load_dataset_fails == variant = "analysis" /\ \E c \in Combos : combinations[c] = "missing"

\* core extract_xy: row.get(x_col) is None and the closure panics
extract_xy_panics(c) == variant = "core" /\ combinations[c] = "missing"

\* load_dataset (analysis), load_dataset_json (core) return the table
LoadDataset ==
    /\ bpc = "loading"
    /\ ~load_dataset_fails
    /\ bpc' = "fanout"
    /\ UNCHANGED <<combinations, work, jobs, accs, local, all_data, store, ds, wtask>>
    /\ UNCHANGED <<engineVars, aggVars>>
    /\ UNCHANGED <<interpVars, emitVars, sinkVars>>

\* load_dataset panics on the missing column: main unwinds
LoadDatasetPanic ==
    /\ bpc = "loading"
    /\ load_dataset_fails
    /\ bpc' = "aborted"
    /\ UNCHANGED <<combinations, work, jobs, accs, local, all_data, store, ds, wtask>>
    /\ UNCHANGED <<engineVars, aggVars>>
    /\ UNCHANGED <<interpVars, emitVars, sinkVars>>

\* the combinations the parallel iterator hands to the closure
Taken == IF variant = "core" THEN Combos ELSE {c \in Combos : c <= TakeCount}

\* the first replicate of a core engine call on empty x, y indexes x[idx]
\* out of bounds: n is quantiles.len(), not x.len()
ReplicatePanics(c) == variant = "core" /\ combinations[c] = "empty"

NotStarted == [st |-> "pending", f |-> 1, thr |-> 1, nrep |-> 0, ret |-> FALSE, pushed |-> 0]

\* the worker of combination c is inside the engine call of its job
InCall(c, phase) ==
    /\ bpc = "fanout"
    /\ work[c].st = "running"
    /\ ~work[c].ret
    /\ jobs[c][work[c].f] = phase

\* mutant of AllSampled: the reduce starts once one replicate has finished
SomeSampled(c) == work[c].nrep >= 1

\* unzip of the parallel map has returned: every replicate has finished
AllSampled(c) == work[c].nrep = MaxBoot

\* the closure of the parallel iterator starts on combination c: it reads
\* the two columns and enters `for &fnr in &fnrs` with the first engine call
StartCombination(c) ==
    /\ bpc = "fanout"
    /\ c \in Taken
    /\ work[c].st = "pending"
    /\ ~extract_xy_panics(c)
    /\ work' = [work EXCEPT ![c].st = "running"]
    /\ jobs' = [jobs EXCEPT ![c][1] = "Sampling"]
    /\ UNCHANGED <<combinations, bpc, accs, local, all_data, store, ds, wtask>>
    /\ UNCHANGED <<engineVars, aggVars>>
    /\ UNCHANGED <<interpVars, emitVars, sinkVars>>

\* the closure starts on a combination whose column is missing: extract_xy
\* panics before the first engine call
ExtractPanic(c) ==
    /\ bpc = "fanout"
    /\ c \in Taken
    /\ work[c].st = "pending"
    /\ extract_xy_panics(c)
    /\ work' = [work EXCEPT ![c].st = "panicked"]
    /\ UNCHANGED <<combinations, bpc, jobs, accs, local, all_data, store, ds, wtask>>
    /\ UNCHANGED <<engineVars, aggVars>>
    /\ UNCHANGED <<interpVars, emitVars, sinkVars>>

\* one bootstrap replicate of the running quality threshold finishes
JobSample(c) ==
    /\ InCall(c, "Sampling")
    /\ work[c].nrep < MaxBoot
    /\ ~ReplicatePanics(c)
    /\ work' = [work EXCEPT ![c].nrep = @ + 1]
    /\ UNCHANGED <<combinations, bpc, jobs, accs, local, all_data, store, ds, wtask>>
    /\ UNCHANGED <<engineVars, aggVars>>
    /\ UNCHANGED <<interpVars, emitVars, sinkVars>>

\* a replicate panics: the closure of combination c unwinds
JobSamplePanic(c) ==
    /\ InCall(c, "Sampling")
    /\ work[c].nrep < MaxBoot
    /\ ReplicatePanics(c)
    /\ work' = [work EXCEPT ![c].st = "panicked"]
    /\ jobs' = [jobs EXCEPT ![c][work[c].f] = "Failed"]
    /\ UNCHANGED <<combinations, bpc, accs, local, all_data, store, ds, wtask>>
    /\ UNCHANGED <<engineVars, aggVars>>
    /\ UNCHANGED <<interpVars, emitVars, sinkVars>>

\* the two aggregate_curves calls start
JobAggregate(c) ==
    /\ InCall(c, "Sampling")
    /\ AllSampled(c)
    /\ jobs' = [jobs EXCEPT ![c][work[c].f] = "Aggregating"]
    /\ UNCHANGED <<combinations, bpc, work, accs, local, all_data, store, ds, wtask>>
    /\ UNCHANGED <<engineVars, aggVars>>
    /\ UNCHANGED <<interpVars, emitVars, sinkVars>>

\* both aggregates exist: linear_interpolate starts
JobInterpolate(c) ==
    /\ InCall(c, "Aggregating")
    /\ jobs' = [jobs EXCEPT ![c][work[c].f] = "Interpolating"]
    /\ UNCHANGED <<combinations, bpc, work, accs, local, all_data, store, ds, wtask>>
    /\ UNCHANGED <<engineVars, aggVars>>
    /\ UNCHANGED <<interpVars, emitVars, sinkVars>>

\* the point of the quality threshold is pushed: the next iteration of
\* `for &thy in quality_thresholds` starts, or the engine call returns
JobPoint(c) ==
    /\ InCall(c, "Interpolating")
    /\ IF work[c].thr < MaxGrid
       THEN /\ work' = [work EXCEPT ![c].thr = @ + 1, ![c].nrep = 0]
            /\ jobs' = [jobs EXCEPT ![c][work[c].f] = "Sampling"]
       ELSE /\ work' = [work EXCEPT ![c].ret = TRUE]
            /\ UNCHANGED jobs
    /\ UNCHANGED <<combinations, bpc, accs, local, all_data, store, ds, wtask>>
    /\ UNCHANGED <<engineVars, aggVars>>
    /\ UNCHANGED <<interpVars, emitVars, sinkVars>>

\* the row of the running job is complete: the next iteration of
\* `for &fnr in &fnrs` starts, or the closure returns
NextJob(c) ==
    IF work[c].f < MaxFnrs
    THEN /\ work' = [work EXCEPT ![c] = [st |-> "running", f |-> work[c].f + 1, thr |-> 1,
                                         nrep |-> 0, ret |-> FALSE, pushed |-> 0]]
         /\ jobs' = [jobs EXCEPT ![c][work[c].f] = "Emitted", ![c][work[c].f + 1] = "Sampling"]
    ELSE /\ work' = [work EXCEPT ![c].st = "finished"]
         /\ jobs' = [jobs EXCEPT ![c][work[c].f] = "Emitted"]

Returned(c) == bpc = "fanout" /\ work[c].st = "running" /\ work[c].ret

\* core main: local.push(TraceData { .. })
PushLocal(c) ==
    /\ Returned(c)
    /\ variant = "core"
    /\ local' = [local EXCEPT ![c] = Append(@, <<c, work[c].f>>)]
    /\ NextJob(c)
    /\ UNCHANGED <<combinations, bpc, accs, all_data, store, ds, wtask>>
    /\ UNCHANGED <<engineVars, aggVars>>
    /\ UNCHANGED <<interpVars, emitVars, sinkVars>>

\* analysis main: drop_level and fnr pushed under the lock of scalar_cols
PushScalar(c) ==
    /\ Returned(c)
    /\ variant = "analysis"
    /\ work[c].pushed = 0
    /\ accs' = [accs EXCEPT !.scalar_cols = Append(@, <<c, work[c].f>>)]
    /\ work' = [work EXCEPT ![c].pushed = 1]
    /\ UNCHANGED <<combinations, bpc, jobs, local, all_data, store, ds, wtask>>
    /\ UNCHANGED <<engineVars, aggVars>>
    /\ UNCHANGED <<interpVars, emitVars, sinkVars>>

\* analysis main: quality_thresholds pushed under the lock of xs_vecs
PushXs(c) ==
    /\ Returned(c)
    /\ variant = "analysis"
    /\ work[c].pushed = 1
    /\ accs' = [accs EXCEPT !.xs_vecs = Append(@, <<c, work[c].f>>)]
    /\ work' = [work EXCEPT ![c].pushed = 2]
    /\ UNCHANGED <<combinations, bpc, jobs, local, all_data, store, ds, wtask>>
    /\ UNCHANGED <<engineVars, aggVars>>
    /\ UNCHANGED <<interpVars, emitVars, sinkVars>>

\* analysis main: thresholds pushed under the lock of th_vecs
PushTh(c) ==
    /\ Returned(c)
    /\ variant = "analysis"
    /\ work[c].pushed = 2
    /\ accs' = [accs EXCEPT !.th_vecs = Append(@, <<c, work[c].f>>)]
    /\ work' = [work EXCEPT ![c].pushed = 3]
    /\ UNCHANGED <<combinations, bpc, jobs, local, all_data, store, ds, wtask>>
    /\ UNCHANGED <<engineVars, aggVars>>
    /\ UNCHANGED <<interpVars, emitVars, sinkVars>>

\* analysis main: prec_curves pushed under the lock of ys_vecs
PushYs(c) ==
    /\ Returned(c)
    /\ variant = "analysis"
    /\ work[c].pushed = 3
    /\ accs' = [accs EXCEPT !.ys_vecs = Append(@, <<c, work[c].f>>)]
    /\ NextJob(c)
    /\ UNCHANGED <<combinations, bpc, local, all_data, store, ds, wtask>>
    /\ UNCHANGED <<engineVars, aggVars>>
    /\ UNCHANGED <<interpVars, emitVars, sinkVars>>

RECURSIVE FlatLocal(_)
\* flat_map(..).collect(): the rows of the closures in combination order
FlatLocal(k) == IF k = 0 THEN <<>> ELSE FlatLocal(k - 1) \o local[k]

\* the parallel iterator returns: every closure it ran has returned
Join ==
    /\ bpc = "fanout"
    /\ \A c \in Taken : work[c].st = "finished"
    /\ bpc' = "saving"
    /\ all_data' = IF variant = "core" THEN FlatLocal(Len(combinations)) ELSE all_data
    /\ UNCHANGED <<combinations, work, jobs, accs, local, store, ds, wtask>>
    /\ UNCHANGED <<engineVars, aggVars>>
    /\ UNCHANGED <<interpVars, emitVars, sinkVars>>

\* the panic of a closure leaves the parallel iterator once no closure is
\* running (closures not started yet are dropped) and main unwinds
Unwind ==
    /\ bpc = "fanout"
    /\ \E c \in Combos : work[c].st = "panicked"
    /\ \A c \in Combos : work[c].st # "running"
    /\ bpc' = "aborted"
    /\ UNCHANGED <<combinations, work, jobs, accs, local, all_data, store, ds, wtask>>
    /\ UNCHANGED <<engineVars, aggVars>>
    /\ UNCHANGED <<interpVars, emitVars, sinkVars>>

\* core main: std::fs::write("precomputed.json", ..) of all collected rows
WriteJson ==
    /\ bpc = "saving"
    /\ variant = "core"
    /\ store' = all_data
    /\ bpc' = "done"
    /\ UNCHANGED <<combinations, work, jobs, accs, local, all_data, ds, wtask>>
    /\ UNCHANGED <<engineVars, aggVars>>
    /\ UNCHANGED <<interpVars, emitVars, sinkVars>>

\* the writer tasks that are between their start and their end
Writers == {d \in DOMAIN wtask : wtask[d] = "running"}

\* analysis main: save_traces_sqlite(..) moves the table into a blocking
\* task, the one writer of the store of the dataset
SpawnWriter ==
    /\ bpc = "saving"
    /\ variant = "analysis"
    /\ wtask' = [wtask EXCEPT ![ds] = "running"]
    /\ bpc' = "awaiting"
    /\ UNCHANGED <<combinations, work, jobs, accs, local, all_data, store, ds>>
    /\ UNCHANGED <<engineVars, aggVars>>
    /\ UNCHANGED <<interpVars, emitVars, sinkVars>>

\* analysis save_traces_sqlite: the table handed over holds the columns
\* "drop_level" and "fnr" only, so column_f64(&x_col) of the first
\* combination is empty and the writer panics before any insert
SaveTracesPanic(d) ==
    /\ wtask[d] = "running"
    /\ Len(combinations) >= 1
    /\ wtask' = [wtask EXCEPT ![d] = "panicked"]
    /\ UNCHANGED <<combinations, bpc, work, jobs, accs, local, all_data, store, ds>>
    /\ UNCHANGED <<engineVars, aggVars>>
    /\ UNCHANGED <<interpVars, emitVars, sinkVars>>

\* analysis save_traces_sqlite over no combination: an empty transaction
SaveTracesCommit(d) ==
    /\ wtask[d] = "running"
    /\ Len(combinations) = 0
    /\ wtask' = [wtask EXCEPT ![d] = "committed"]
    /\ UNCHANGED <<combinations, bpc, work, jobs, accs, local, all_data, store, ds>>
    /\ UNCHANGED <<engineVars, aggVars>>
    /\ UNCHANGED <<interpVars, emitVars, sinkVars>>

\* mutant of WriterFinished: the task is spawned and not awaited
WriterDetached(d) == TRUE

\* `.await` on the blocking task returns once the task has ended
WriterFinished(d) == wtask[d] \in {"committed", "panicked"}

\* main resumes after `.await`: expect("Tokio task failed") panics if the
\* writer panicked; otherwise the next dataset, with new accumulators, or
\* the end of main
AwaitWriter ==
    /\ bpc = "awaiting"
    /\ WriterFinished(ds)
    /\ IF wtask[ds] = "panicked"
       THEN /\ bpc' = "aborted"
            /\ UNCHANGED <<work, jobs, accs, ds>>
       ELSE IF ds < MaxDatasets
       THEN /\ bpc' = "loading"
            /\ ds' = ds + 1
            /\ work' = [c \in Combos |-> NotStarted]
            /\ jobs' = [c \in Combos |-> [f \in Fnrs |-> "Pending"]]
            /\ accs' = [scalar_cols |-> <<>>, xs_vecs |-> <<>>, th_vecs |-> <<>>,
                        ys_vecs |-> <<>>]
       ELSE /\ bpc' = "done"
            /\ UNCHANGED <<work, jobs, accs, ds>>
    /\ UNCHANGED <<combinations, local, all_data, store, wtask>>
    /\ UNCHANGED <<engineVars, aggVars>>
    /\ UNCHANGED <<interpVars, emitVars, sinkVars>>

InitBatch ==
    /\ variant \in {"core", "analysis"}
    /\ args = [x |-> <<>>, y |-> <<>>, quantiles |-> <<>>, quality_thresholds |-> <<>>,
               n_bootstrap |-> 0, method |-> "mean", inverted |-> FALSE, q |-> Zero]
    /\ rng_salt = 0
    /\ pc = "idle"
    /\ t = 1
    /\ reps = <<>>
    /\ agg = NoAgg
    /\ out = [all_p |-> <<>>, all_thx |-> <<>>]
    /\ hist = <<>>
    /\ AggIdle
    /\ combinations \in SeqsUpTo({"full", "empty", "missing"}, MaxCombos)
    /\ bpc = "loading"
    /\ work = [c \in Combos |-> NotStarted]
    /\ jobs = [c \in Combos |-> [f \in Fnrs |-> "Pending"]]
    /\ accs = [scalar_cols |-> <<>>, xs_vecs |-> <<>>, th_vecs |-> <<>>, ys_vecs |-> <<>>]
    /\ local = [c \in Combos |-> <<>>]
    /\ all_data = <<>>
    /\ store = <<>>
    /\ ds = 1
    /\ wtask = [d \in Datasets |-> "none"]
    /\ InterpIdle
    /\ EmitIdle
    /\ SinkIdle

NextBatch ==
    \/ LoadDataset
    \/ LoadDatasetPanic
    \/ \E c \in Combos : ExtractPanic(c)
    \/ \E c \in Combos : StartCombination(c)
    \/ \E c \in Combos : JobSample(c)
    \/ \E c \in Combos : JobSamplePanic(c)
    \/ \E c \in Combos : JobAggregate(c)
    \/ \E c \in Combos : JobInterpolate(c)
    \/ \E c \in Combos : JobPoint(c)
    \/ \E c \in Combos : PushLocal(c)
    \/ \E c \in Combos : PushScalar(c)
    \/ \E c \in Combos : PushXs(c)
    \/ \E c \in Combos : PushTh(c)
    \/ \E c \in Combos : PushYs(c)
    \/ Join
    \/ Unwind
    \/ WriteJson
    \/ SpawnWriter
    \/ \E d \in Datasets : SaveTracesPanic(d)
    \/ \E d \in Datasets : SaveTracesCommit(d)
    \/ AwaitWriter

SpecBatch == InitBatch /\ [][NextBatch]_vars

\* the worker pool runs every closure that can take a step
SpecBatchFair == SpecBatch /\ WF_vars(NextBatch)

----------------------------------------------------------------------------
(* Claims about the orchestrator *)

\* number of times row occurs in rows
Count(rows, row) == Cardinality({k \in DOMAIN rows : rows[k] = row})

\* the Robust Curves the fan-out has produced for the sink
Produced == IF variant = "core" THEN all_data ELSE accs.ys_vecs

BatchOver == bpc \in {"done", "aborted"}
Terminal == {"Emitted", "Skipped", "Failed"}
EmptyCombos == {c \in Combos : combinations[c] = "empty"}

\* C17: for every combination and every target FNR the orchestrator produces
\* exactly one Robust Curve and forwards it to the sink: once the fan-out
\* has returned, every (combination, target FNR) has exactly one curve, and
\* after a completed run the store holds exactly (combinations x target
\* FNRs) rows, one for each pair.
C17_OneRowPerJob ==
    /\ bpc \in {"saving", "done"} =>
          \A c \in Combos, f \in Fnrs : Count(Produced, <<c, f>>) = 1
    /\ bpc = "done" =>
          /\ Len(store) = Len(combinations) * MaxFnrs
          /\ \A c \in Combos, f \in Fnrs : Count(store, <<c, f>>) = 1

\* C18: failure isolation: in a batch where exactly one combination has an
\* empty required column the batch never aborts, and when it is over every
\* well-formed combination has emitted the row of each of its jobs to the
\* store and the jobs of the malformed one are recorded Skipped or Failed.
C18_FailureIsolation ==
    Cardinality(EmptyCombos) = 1 =>
        /\ bpc # "aborted"
        /\ bpc = "done" =>
              \A c \in Combos, f \in Fnrs :
                  IF c \in EmptyCombos
                  THEN jobs[c][f] \in {"Skipped", "Failed"}
                  ELSE jobs[c][f] = "Emitted" /\ Count(store, <<c, f>>) = 1

Rank(phase) ==
    CASE phase = "Pending" -> 0
      [] phase = "Sampling" -> 1
      [] phase = "Aggregating" -> 2
      [] phase = "Interpolating" -> 3
      [] phase = "Emitted" -> 4
      [] OTHER -> 5

\* the quality threshold job (c, f) has reached
JobThr(c, f) ==
    IF jobs[c][f] = "Pending" THEN 0
    ELSE IF jobs[c][f] = "Emitted" THEN MaxGrid
    ELSE work[c].thr

\* progress of job (c, f): its quality threshold, then its phase
Measure(c, f) == JobThr(c, f) * 6 + Rank(jobs[c][f])

\* C19: every job moves only forward through Pending, Sampling, Aggregating,
\* Interpolating, Emitted, the chain Sampling..Interpolating running once
\* for each quality threshold in grid order: its progress (quality
\* threshold, then phase) never decreases; it is Aggregating only with all
\* n_bootstrap replicates of the threshold finished; it enters Interpolating
\* only from Aggregating, Sampling only from Pending or from the
\* Interpolating of the previous threshold, and Emitted only from the
\* Interpolating of the last quality threshold.
C19_ForwardOnly ==
    [][\A c \in Combos, f \in Fnrs :
          /\ Measure(c, f)' >= Measure(c, f)
          /\ jobs'[c][f] = "Aggregating" => work'[c].f = f /\ work'[c].nrep = MaxBoot
          /\ (jobs'[c][f] = "Interpolating" /\ jobs[c][f] # "Interpolating") =>
                 jobs[c][f] = "Aggregating"
          /\ (jobs'[c][f] = "Sampling" /\ jobs[c][f] # "Sampling") =>
                 jobs[c][f] \in {"Pending", "Interpolating"}
          /\ (jobs'[c][f] = "Emitted" /\ jobs[c][f] # "Emitted") =>
                 jobs[c][f] = "Interpolating" /\ work[c].thr = MaxGrid]_vars

\* one combination has emitted its first job and is sampling the second
\* quality threshold of its second job while another combination is
\* aggregating
C19_Witness ==
    /\ bpc = "fanout"
    /\ \E c, d \in Combos :
          /\ c # d
          /\ jobs[c][1] = "Emitted"
          /\ jobs[c][2] = "Sampling"
          /\ work[c].thr = 2
          /\ work[c].nrep = 1
          /\ jobs[d][1] = "Aggregating"

\* C20: under fair scheduling every job eventually reaches a terminal state
\* (Emitted, Skipped or Failed) and stays in it, and the batch terminates
\* with every job terminal.
C20_EveryJobTerminal ==
    <>[](BatchOver /\ \A c \in Combos, f \in Fnrs : jobs[c][f] \in Terminal)

----------------------------------------------------------------------------
(* linear_interpolate called on its own, on any curves aligned to the      *)
(* Quantile Grid, not only the ones the aggregator produces                *)

InterpValues == {Zero, F(1, 4), F(1, 2), One}
InterpTargets == {F(1, 20), F(1, 4), F(1, 2)}

InitInterp ==
    /\ EngineIdle
    /\ AggIdle
    /\ BatchIdle
    /\ EmitIdle
    /\ SinkIdle
    /\ \E qg \in QuantileGrids, fn \in {"core", "analysis"}, xi \in InterpTargets :
          \E fnr \in SeqsOfLen(InterpValues, Len(qg)),
             prec \in SeqsOfLen(InterpValues, Len(qg)) :
             l_in = [fn |-> fn, fnr |-> fnr, prec |-> prec, quantiles |-> qg, xi |-> xi]
    /\ l_out = [st |-> "called", thx |-> NaN, p |-> NaN]
    /\ l_calls = <<>>

\* the interpolation step of precision_at_robust: linear_interpolate on the
\* thresholds, then on the precision values
InterpolateCore ==
    /\ l_out.st = "called"
    /\ l_in.fn = "core"
    /\ LET n == Len(l_in.quantiles)
           r == interpolate_core(l_in.prec, l_in.fnr, l_in.quantiles, l_in.xi)
       IN  /\ l_out' = [st |-> "returned", thx |-> r.thx, p |-> r.p]
           /\ l_calls' = calls_core(l_in.fnr, l_in.quantiles, l_in.xi, n)
                            \o calls_core(l_in.fnr, l_in.prec, l_in.xi, n)
    /\ UNCHANGED <<l_in, engineVars, aggVars, batchVars, emitVars, sinkVars>>

\* linear_interpolate of analysis/metrics/precision.rs
InterpolateAnalysis ==
    /\ l_out.st = "called"
    /\ l_in.fn = "analysis"
    /\ LET r == linear_interpolate_analysis(l_in.prec, l_in.fnr, l_in.quantiles, l_in.xi)
       IN  l_out' = [st |-> "returned", thx |-> r.thx, p |-> r.p]
    /\ l_calls' = calls_analysis(l_in.prec, l_in.fnr, l_in.quantiles)
    /\ UNCHANGED <<l_in, engineVars, aggVars, batchVars, emitVars, sinkVars>>

NextInterp == InterpolateCore \/ InterpolateAnalysis

SpecInterp == InitInterp /\ [][NextInterp]_vars

----------------------------------------------------------------------------
(* Claims about linear_interpolate *)

\* C27: linear_interpolate of src/src/compute_robust.rs returns NaN for a
\* target at or below x[0], else the last dependent value for a target at or
\* above x[n-1]; only a target strictly between the two reaches
\* Interp1d::new_sorted, so on a non-increasing FNR curve the interpolator is
\* never reached and a target at or below fnr[0] gives NaN for both outputs
C27_CoreBranches ==
    (l_out.st = "returned" /\ l_in.fn = "core") =>
        LET x == l_in.fnr
            n == Len(l_in.quantiles)
            q == l_in.xi
        IN  /\ RLe(q, x[1]) => (IsNaN(l_out.thx) /\ IsNaN(l_out.p))
            /\ (~RLe(q, x[1]) /\ RGe(q, x[n])) =>
                   (l_out.thx = l_in.quantiles[n] /\ l_out.p = l_in.prec[n])
            /\ l_calls # <<>> => (RLt(x[1], q) /\ RLt(q, x[n]))
            /\ NonIncreasing(x) => l_calls = <<>>

\* a target strictly inside an ascending curve: the interpolator is reached
\* and returns a value between two grid thresholds
C27_Witness ==
    /\ l_out.st = "returned"
    /\ l_in.fn = "core"
    /\ l_calls # <<>>
    /\ ~IsNaN(l_out.thx)
    /\ l_out.thx # l_in.quantiles[Len(l_in.quantiles)]

\* C30: linear_interpolate of analysis/metrics/precision.rs keeps the three
\* sequences aligned after the boundary point is injected: at every grid
\* position k, fnr[k] is paired with tp[k] in the precision interpolation and
\* with quantiles[k] in the threshold interpolation
C30_BoundaryKeepsAlignment ==
    (l_out.st = "returned" /\ l_in.fn = "analysis") =>
        \A k \in 1 .. Len(l_in.fnr) :
            /\ l_calls[1].x[k + 1] = l_in.fnr[k]
            /\ l_calls[1].y[k + 1] = l_in.prec[k]
            /\ l_calls[2].x[k + 1] = l_in.fnr[k]
            /\ l_calls[2].y[k + 1] = l_in.quantiles[k]

----------------------------------------------------------------------------
(* Claims about the row main emits for an engine call *)

\* C26: a Robust Curve that is 1.0 at every quality threshold is emitted
\* with a DegenerateCurveWarning surfaced for its job, never silently
C26_DegenerateCurveWarned ==
    (pc = "emitted" /\ \A k \in DOMAIN out.all_p : out.all_p[k] = One) =>
        /\ "precision" \in warnings
        /\ Len(emitted) = 1
        /\ emitted[1].ys = out.all_p

\* a precision curve of 1.0 at every quality threshold, at thresholds other
\* than 1.0, has been emitted with its warning
C26_Witness ==
    /\ pc = "emitted"
    /\ \A k \in DOMAIN out.all_p : out.all_p[k] = One
    /\ \E k \in DOMAIN out.all_thx : out.all_thx[k] # One
    /\ "precision" \in warnings
    /\ Len(emitted) = 1

----------------------------------------------------------------------------
(* Claims about the workers, the loader and the writer of the orchestrator *)

\* C21: result emission is single-consumer: the store changes only after the
\* fan-out, when no worker is running, by the one writer of main, and at no
\* time are two writers between their start and their end
C21_SingleWriter ==
    [][/\ Cardinality(Writers') <= 1
       /\ store' # store =>
              /\ bpc \in {"saving", "awaiting"}
              /\ \A c \in Combos : work[c].st # "running"]_vars

\* the writer is running on the rows two workers have produced
C21_Witness ==
    /\ Cardinality(Writers) = 1
    /\ bpc = "awaiting"
    /\ \E c, d \in Combos : c # d /\ work[c].st = "finished" /\ work[d].st = "finished"

\* C24: combinations are independent: a step of the fan-out changes no
\* state shared between workers, only the state of the worker taking it
C24_NoSharedMutableState ==
    [][(bpc = "fanout" /\ bpc' = "fanout") =>
          /\ accs' = accs
          /\ all_data' = all_data
          /\ store' = store
          /\ combinations' = combinations
          /\ \A c \in Combos : local'[c] # local[c] => work'[c] # work[c]]_vars

\* C25: a column missing from the source table does not abort the load or
\* the batch: the load returns, and the worker of the combination does not
\* panic on it
C25_MissingColumnSkips ==
    [][/\ bpc = "loading" => bpc' # "aborted"
       /\ \A c \in Combos :
              combinations[c] = "missing" => work'[c].st # "panicked"]_vars

\* C28: in analysis main, once the fan-out has returned the accumulators
\* have the same length and at every index hold the pushes of one job
C28_AccumulatorsAligned ==
    (variant = "analysis" /\ bpc \in {"saving", "awaiting"}) =>
        /\ Len(accs.xs_vecs) = Len(accs.scalar_cols)
        /\ Len(accs.th_vecs) = Len(accs.scalar_cols)
        /\ Len(accs.ys_vecs) = Len(accs.scalar_cols)
        /\ \A k \in DOMAIN accs.scalar_cols :
               /\ accs.xs_vecs[k] = accs.scalar_cols[k]
               /\ accs.th_vecs[k] = accs.scalar_cols[k]
               /\ accs.ys_vecs[k] = accs.scalar_cols[k]

----------------------------------------------------------------------------
(* The writers of the store called on their own, and the matching loaders: *)
(*   "core"     save_traces_sqlite / load_traces_sqlite of src/data        *)
(*   "backend"  save_traces / load_traces of backend/src/db.rs             *)
(*   "analysis" save_traces_sqlite / load_traces_sqlite of analysis/data   *)
(*   "channel"  save_traces(rx) of analysis/data (no loader)               *)
(* A trace is one job's row: `combo` stands for method, drop level,        *)
(* metric, aggregation and metric-aggregation together.                    *)

ThArrays == {<<>>, <<F(1, 4)>>}
XsArrays == {<<>>, <<F(1, 2), F(3, 5)>>}
YsArrays == {<<>>, <<One>>}

\* the traces of k jobs of one dataset, job i of combination i
RECURSIVE TracesOf(_)
TracesOf(k) ==
    IF k = 0 THEN {<<>>}
    ELSE {Append(ts, [combo |-> k, dataset |-> "d1", fnr |-> F(1, 20),
                      th |-> th, xs |-> xs, ys |-> ys]) :
             ts \in TracesOf(k - 1), th \in ThArrays, xs \in XsArrays, ys \in YsArrays}

\* bincode::serialize of a Vec<f64>: the length, then the elements
serialize(v) == <<Len(v)>> \o v

\* bincode::deserialize into a Vec<f64>
deserialize(b) ==
    IF Len(b) >= 1 /\ b[1] = Len(b) - 1
    THEN [ok |-> TRUE, v |-> SubSeq(b, 2, Len(b))]
    ELSE [ok |-> FALSE, v |-> <<>>]

RECURSIVE ConcatTh(_)
\* load_traces_sqlite of analysis: ct.data["th"] extended with every t.th
ConcatTh(k) == IF k = 0 THEN <<>> ELSE ConcatTh(k - 1) \o w_in.traces[k].th

\* traces_table.column_f64(..) in save_traces_sqlite of analysis: the table
\* main builds has the scalar columns "drop_level" and "fnr" only; the
\* table load_traces_sqlite builds has x_col, y_col and "th"
column_f64(col, c) ==
    IF w_in.table_from = "main" THEN <<>>
    ELSE IF col = "x_col" THEN w_in.traces[c].xs
    ELSE IF col = "y_col" THEN w_in.traces[c].ys
    ELSE ConcatTh(Len(w_in.traces))

\* the TraceData (TraceRow) the writer has in hand for its k-th insert
trace_to_save(k) ==
    IF w_in.writer = "analysis"
    THEN [combo |-> w_in.traces[k].combo, dataset |-> "", fnr |-> NaN,
          th |-> column_f64("th", k), xs |-> column_f64("x_col", k),
          ys |-> column_f64("y_col", k)]
    ELSE w_in.traces[k]

\* the panic tests of the two analysis writers
row_panics(k) ==
    LET tr == trace_to_save(k)
    IN  \/ w_in.writer = "analysis" /\ (tr.xs = <<>> \/ tr.ys = <<>> \/ tr.th = <<>>)
        \/ w_in.writer = "channel" /\ (tr.th = <<>> \/ tr.ys = <<>>)

\* the row of the INSERT: the blob bound to each of the columns th, xs, ys
db_row(k) ==
    LET tr == trace_to_save(k)
    IN  IF w_in.writer = "analysis"
        THEN [combo |-> tr.combo, dataset |-> tr.dataset, fnr |-> tr.fnr,
              c_th |-> serialize(tr.th), c_xs |-> serialize(tr.ys),
              c_ys |-> serialize(tr.xs)]
        ELSE IF w_in.writer = "channel"
        THEN [combo |-> tr.combo, fnr |-> tr.fnr,
              c_th |-> serialize(tr.th), c_xs |-> serialize(tr.xs),
              c_ys |-> serialize(tr.ys)]
        ELSE [combo |-> tr.combo, dataset |-> tr.dataset, fnr |-> tr.fnr,
              c_xs |-> serialize(tr.xs), c_th |-> serialize(tr.th),
              c_ys |-> serialize(tr.ys)]

\* the writers that open conn.transaction() around their inserts
in_transaction == w_in.writer \in {"analysis", "channel"}

\* the three blob columns in the order of the SELECT of the loader
select_blobs(row) ==
    IF w_in.writer = "analysis" THEN <<row.c_th, row.c_xs, row.c_ys>>
    ELSE <<row.c_xs, row.c_th, row.c_ys>>

\* row.get::<f64>(3) fails on the row: SQLite stores a NaN bound to a REAL
\* column as NULL, which does not convert to f64
get_fnr_fails(row) == IsNaN(row.fnr)

\* the TraceData a loader builds from a row: xs from the first blob of the
\* SELECT (index 7), th from the second (8), ys from the third (9)
load_row(row) ==
    LET blobs == select_blobs(row)
    IN  [combo |-> row.combo, dataset |-> row.dataset, fnr |-> row.fnr,
         xs |-> deserialize(blobs[1]).v, th |-> deserialize(blobs[2]).v,
         ys |-> deserialize(blobs[3]).v]

InitStore ==
    /\ EngineIdle
    /\ AggIdle
    /\ BatchIdle
    /\ InterpIdle
    /\ EmitIdle
    /\ \E n \in 0 .. MaxRows :
          \E ts \in TracesOf(n), fail \in 0 .. n,
             wr \in {<<"core", "main">>, <<"backend", "main">>, <<"channel", "main">>,
                     <<"analysis", "main">>, <<"analysis", "load_traces_sqlite">>} :
             w_in = [writer |-> wr[1], traces |-> ts, table_from |-> wr[2],
                     fail_at |-> fail]
    /\ w = [pc |-> "called", k |-> 1, loaded |-> <<>>]
    /\ db = [committed |-> <<>>, tx |-> <<>>]

\* the file is created, the table is created, the transaction (if any) and
\* the INSERT statement are prepared
OpenStore ==
    /\ w.pc = "called"
    /\ w' = [w EXCEPT !.pc = "inserting"]
    /\ db' = [committed |-> <<>>, tx |-> <<>>]
    /\ UNCHANGED <<w_in, engineVars, aggVars, batchVars, interpVars, emitVars>>

\* one execute of the INSERT: inside the transaction, or committed at once
InsertRow ==
    /\ w.pc = "inserting"
    /\ w.k <= Len(w_in.traces)
    /\ ~row_panics(w.k)
    /\ w_in.fail_at # w.k
    /\ db' = IF in_transaction
             THEN [db EXCEPT !.tx = Append(@, db_row(w.k))]
             ELSE [db EXCEPT !.committed = Append(@, db_row(w.k))]
    /\ w' = [w EXCEPT !.k = @ + 1]
    /\ UNCHANGED <<w_in, engineVars, aggVars, batchVars, interpVars, emitVars>>

\* the panic test fires, or execute returns an error: the writer ends and
\* the open transaction, dropped, is rolled back
InsertFails ==
    /\ w.pc = "inserting"
    /\ w.k <= Len(w_in.traces)
    /\ row_panics(w.k) \/ w_in.fail_at = w.k
    /\ db' = [db EXCEPT !.tx = <<>>]
    /\ w' = [w EXCEPT !.pc = "failed"]
    /\ UNCHANGED <<w_in, engineVars, aggVars, batchVars, interpVars, emitVars>>

\* after the last insert: tx.commit(), or Ok(()) without a transaction
CommitStore ==
    /\ w.pc = "inserting"
    /\ w.k > Len(w_in.traces)
    /\ db' = [committed |-> db.committed \o db.tx, tx |-> <<>>]
    /\ w' = [w EXCEPT !.pc = "saved"]
    /\ UNCHANGED <<w_in, engineVars, aggVars, batchVars, interpVars, emitVars>>

\* the matching loader reads the rows back: analysis load_traces_sqlite
\* prints "Failed to read trace row" for a row it cannot read and goes on;
\* the other two loaders unwrap
LoadTraces ==
    /\ w.pc = "saved"
    /\ w_in.writer # "channel"
    /\ LET readable == SelectSeq(db.committed, LAMBDA row : ~get_fnr_fails(row))
       IN  IF w_in.writer # "analysis" /\ Len(readable) # Len(db.committed)
           THEN w' = [w EXCEPT !.pc = "load_panicked"]
           ELSE w' = [w EXCEPT !.pc = "loaded",
                              !.loaded = [k \in DOMAIN readable |-> load_row(readable[k])]]
    /\ UNCHANGED <<w_in, db, engineVars, aggVars, batchVars, interpVars, emitVars>>

NextStore == OpenStore \/ InsertRow \/ InsertFails \/ CommitStore \/ LoadTraces

SpecStore == InitStore /\ [][NextStore]_vars

----------------------------------------------------------------------------
(* Claims about the store *)

\* C22: the writer uses one transaction per dataset: the store never holds
\* a committed strict non-empty subset of the rows of the batch, and a
\* failure before the commit leaves none of them committed
C22_OneTransactionPerDataset ==
    /\ Len(db.committed) \in {0, Len(w_in.traces)}
    /\ w.pc = "failed" => db.committed = <<>>

\* C23: every row persisted by the sink of analysis carries the key
\* attributes of the job that produced it, target FNR and dataset included,
\* and its arrays are the quality thresholds (xs), the interpolated
\* thresholds (th) and the precision values (ys) of that job
C23_RowCarriesItsJob ==
    w_in.writer = "analysis" =>
        \A k \in DOMAIN db.committed :
            LET row == db.committed[k]
            IN  \E j \in DOMAIN w_in.traces :
                   /\ row.combo = w_in.traces[j].combo
                   /\ row.dataset = w_in.traces[j].dataset
                   /\ row.fnr = w_in.traces[j].fnr
                   /\ deserialize(row.c_xs).v = w_in.traces[j].xs
                   /\ deserialize(row.c_th).v = w_in.traces[j].th
                   /\ deserialize(row.c_ys).v = w_in.traces[j].ys

\* C29: persisting and reloading is a round trip on the array attributes:
\* every trace saved is read back, with the th, xs and ys the writer was
\* saving
C29_RoundTrip ==
    (w.pc = "loaded" /\ w_in.writer \in {"core", "backend", "analysis"}) =>
        /\ Len(w.loaded) = Len(w_in.traces)
        /\ \A k \in DOMAIN w.loaded :
               /\ w.loaded[k].th = trace_to_save(k).th
               /\ w.loaded[k].xs = trace_to_save(k).xs
               /\ w.loaded[k].ys = trace_to_save(k).ys

====
